---- MODULE Spec2Model ----
(***************************************************************************)
(* A model of the rift-agent backend: the LangGraph pipeline engine        *)
(* (agent/orchestrator.py), its six nodes (agent/agents/*.py), the result  *)
(* serialiser (results.py) and the FastAPI front door (main.py).           *)
(*                                                                         *)
(* Two granularities of the pipeline are given:                            *)
(*   Spec        one background task, the graph executed node by node;     *)
(*   SpecServer  the server with several tasks in flight, where the call   *)
(*               graph.invoke(...) of one task, which touches no shared    *)
(*               state, is one step built from the same node operators.    *)
(* A third specification, SpecUnit, applies single node functions          *)
(* (analyze_agent, _rule_based_fix, score_agent) to arguments drawn from   *)
(* bounded sets.                                                           *)
(*                                                                         *)
(* Abstractions: timestamps and free-text details of timeline events are   *)
(* dropped (an event is its name and its status); strings the code builds  *)
(* from exceptions are fixed tokens; everything a node obtains from a      *)
(* subprocess, the file system, the LLM or GitHub is an outcome value      *)
(* passed to the node operator and chosen nondeterministically.  Scores    *)
(* are integers in hundredths of a point.                                  *)
(***************************************************************************)
EXTENDS Integers, Sequences, FiniteSets, TLC

VARIABLES
    pipeline_state,   \* main.py: the module-level dict _pipeline_state
    results_file,     \* results.py: the content of results.json, or NoFile
    tasks,            \* the background tasks (threads) by run number
    last_response     \* what the last HTTP handler returned

vars == <<pipeline_state, results_file, tasks, last_response>>

(***************************************************************************)
(* Bounds of the model.                                                    *)
(***************************************************************************)
MaxRuns == 2            \* triggers the server is sent in one behaviour
MaxRetryLimit == 1      \* the largest retry_limit a request carries

RunIds == 1..MaxRuns
RetryLimits == (-1)..MaxRetryLimit

(***************************************************************************)
(* Program constants.                                                      *)
(***************************************************************************)
SpeedLimitSeconds == 300
FreeCommits == 20
PenaltyPerCommit == 2
PassMark == 50

None == "None"
\* no results.json on disk; no data published (records, as what they stand in for)
NoFile == [exists |-> FALSE]
NoData == [exists |-> FALSE]
TmpDir == "/tmp/rift_agent"
Sha == "c0ffee1"

(***************************************************************************)
(* Sequence helpers.                                                       *)
(***************************************************************************)
RECURSIVE CountIf(_, _)
CountIf(seq, val) ==
    IF seq = <<>> THEN 0
    ELSE (IF Head(seq).status = val THEN 1 ELSE 0) + CountIf(Tail(seq), val)

Max(a, b) == IF a >= b THEN a ELSE b

\* round(n/d, 0) for n >= 0, d > 0 (no tie arises for the inputs of the model)
RoundDiv(n, d) == (2 * n + d) \div (2 * d)

Ev(name, st) == [event |-> name, status |-> st]

(***************************************************************************)
(* state.py: FailureEvent, FixRecord; the failures the tools can report.   *)
(***************************************************************************)
F1 == [bug_type |-> "IMPORT", file |-> "a.py", line |-> 1, message |-> "m1"]
F2 == [bug_type |-> "INDENTATION", file |-> "b.py", line |-> 2, message |-> "m2"]
F1again == [bug_type |-> "IMPORT", file |-> "a.py", line |-> 1, message |-> "m3"]

FixRecord(f, desc, patch, st) ==
    [bug_type |-> f.bug_type, file |-> f.file, line |-> f.line,
     fix_description |-> desc, patch |-> patch, status |-> st]

(***************************************************************************)
(* main.py: RunAgentRequest.  retry_limit is any int.                      *)
(***************************************************************************)
Requests ==
    [retry_limit : RetryLimits, github_token : {"", "ghp_tok"},
     openai_key : {"", "sk-key"}]

(***************************************************************************)
(* orchestrator.py: run_pipeline's initial_state.                          *)
(***************************************************************************)
InitScore ==
    [tests_passed_pct |-> 0, fixes_applied |-> 0, fix_quality_score |-> 0,
     ci_success_bonus |-> 0, total_score |-> 0]

initial_state(req, rid) ==
    [retry_limit |-> req.retry_limit,
     github_token |-> req.github_token,
     openai_key |-> req.openai_key,
     branch_name |-> "",
     clone_path |-> "",
     language |-> "python",
     failures |-> <<>>,
     total_tests |-> 0,
     tests_passed |-> 0,
     tests_failed |-> 0,
     fixes |-> <<>>,
     commit_sha |-> "",
     cicd_timeline |-> <<>>,
     cicd_status |-> "pending",
     score |-> InitScore,
     retry_count |-> 0,
     status |-> "running",
     error_message |-> None,
     run_id |-> rid,
     duration_seconds |-> 0]

\* What a node hands back: the new state, or an exception that left the node.
Ret(s) == [raised |-> FALSE, state |-> s]
Raise(s, what) == [raised |-> TRUE, state |-> s, exc |-> what]


(***************************************************************************)
(* What the world outside the process can answer to each node.             *)
(***************************************************************************)
\* git clone: exit code 0 and the language _detect_language finds, or an error
CloneOutcomes ==
    {[ok |-> TRUE, language |-> "python"],
     [ok |-> FALSE, language |-> "unknown"]}

\* the lint tool: it ran and its output holds these findings; it did not end
\* within its timeout (subprocess.TimeoutExpired); the module is not installed
\* (an error message on stderr, nothing on stdout)
LintRan(findings) == [status |-> "ran", raw |-> findings]
LintTimeout == [status |-> "timeout", raw |-> <<>>]
LintMissing == [status |-> "missing", raw |-> <<>>]

\* the test and lint tools: what the parsers extract from the test run's output
\* (raw, before deduplication) and the summary counters, or an exception of
\* the test run; and what the lint tool did
ToolOutputs ==
    {[raised |-> TRUE, raw |-> <<>>, total |-> 0, passed |-> 0, lint |-> LintRan(<<>>)],
     [raised |-> FALSE, raw |-> <<>>, total |-> 0, passed |-> 0, lint |-> LintRan(<<>>)],
     [raised |-> FALSE, raw |-> <<F1>>, total |-> 2, passed |-> 1, lint |-> LintRan(<<>>)],
     [raised |-> FALSE, raw |-> <<F1, F2, F1again>>, total |-> 0, passed |-> 0,
      lint |-> LintRan(<<>>)]}

\* the LLM when asked: a proposal, a text without the markers, a text with an
\* empty code section, no answer at all
LLMProposal ==
    [failed |-> FALSE,
     response |-> [desc |-> "llm description", code |-> <<"x", "\n">>]]
LLMMalformed == [failed |-> FALSE, response |-> [desc |-> None, code |-> None]]
LLMEmptyCode ==
    [failed |-> FALSE, response |-> [desc |-> "llm description", code |-> <<" ", "\n">>]]
LLMUnreachable == [failed |-> TRUE, response |-> None]

\* the text of a file of the clone
RepoFile == <<<<"x", "\n">>, <<"\t", "x", "\n">>>>

\* one failure's file in the working tree, and the LLM's reply when asked
FixEnvs ==
    {[file |-> "ok", lines |-> RepoFile, llm |-> LLMProposal],
     [file |-> "ok", lines |-> RepoFile, llm |-> LLMMalformed],
     [file |-> "missing", lines |-> RepoFile, llm |-> LLMMalformed],
     [file |-> "readonly", lines |-> RepoFile, llm |-> LLMProposal],
     [file |-> "unreadable", lines |-> RepoFile, llm |-> LLMMalformed]}

GitOutcomes == {"nothing_to_commit", "pushed", "failed"}

\* what get_workflow_status returns: the workflow's status and conclusion
WorkflowAnswer(status, conclusion) == [status |-> status, conclusion |-> conclusion]

\* GitHub Actions, asked about the pushed branch: whether repo_url names a
\* GitHub repository, what get_latest_workflow_run returns (a run id, None, or
\* an exception), and what the successive status requests return, the last
\* answer being repeated for as long as the agent keeps asking
CiOutcomes ==
    {[url |-> "bad", run_id |-> None, answers |-> <<>>],
     [url |-> "ok", run_id |-> None, answers |-> <<>>],
     [url |-> "ok", run_id |-> "raise", answers |-> <<>>],
     [url |-> "ok", run_id |-> "1",
      answers |-> <<WorkflowAnswer("completed", "success")>>],
     [url |-> "ok", run_id |-> "1",
      answers |-> <<WorkflowAnswer("in_progress", None),
                    WorkflowAnswer("completed", "failure")>>],
     [url |-> "ok", run_id |-> "1",
      answers |-> <<WorkflowAnswer("in_progress", None)>>]}

(***************************************************************************)
(* clone_agent.py                                                          *)
(***************************************************************************)
clone_agent(s, o) ==
    LET timeline == Append(s.cicd_timeline, Ev("clone_started", "running"))
    IN  IF o.ok
        THEN [s EXCEPT !.clone_path = TmpDir,
                       !.language = o.language,
                       !.cicd_timeline = Append(timeline, Ev("clone_success", "success")),
                       !.error_message = None]
        ELSE [s EXCEPT !.clone_path = "",
                       !.language = "unknown",
                       !.cicd_timeline = Append(timeline, Ev("clone_failed", "failure")),
                       !.status = "failed",
                       !.error_message = "git clone failed"]

(***************************************************************************)
(* analyze_agent.py                                                        *)
(***************************************************************************)
\* faulty variant of Key: the bug type left out of the key
Key_file_line(f) == <<f.file, f.line>>

Key(f) == <<f.bug_type, f.file, f.line>>

RECURSIVE Dedupe(_, _)
Dedupe(failures, seen) ==
    IF failures = <<>> THEN <<>>
    ELSE IF Key(Head(failures)) \in seen
         THEN Dedupe(Tail(failures), seen)
         ELSE <<Head(failures)>> \o Dedupe(Tail(failures), seen \cup {Key(Head(failures))})

\* the failures list before deduplication: the test findings, then the lint
\* findings; an exception of the lint run is passed over
Extracted(o) == o.raw \o (IF o.lint.status = "ran" THEN o.lint.raw ELSE <<>>)

analyze_agent(s, o) ==
    IF s.clone_path = "" \/ s.status = "failed" THEN s
    ELSE
    LET timeline == Append(s.cicd_timeline, Ev("analysis_started", "running"))
        failures == Dedupe(Extracted(o), {})
    IN  IF o.raised
        THEN [s EXCEPT !.failures = <<>>,
                       !.total_tests = 0,
                       !.tests_passed = 0,
                       !.tests_failed = 0,
                       !.cicd_timeline = Append(timeline, Ev("analysis_error", "failure")),
                       !.error_message = "analysis error"]
        ELSE [s EXCEPT !.failures = failures,
                       !.total_tests = o.total,
                       !.tests_passed = o.passed,
                       !.tests_failed = Len(failures),
                       !.cicd_timeline =
                           Append(timeline,
                                  Ev("analysis_complete",
                                     IF Len(failures) = 0 THEN "success" ELSE "failure"))]

(***************************************************************************)
(* fix_agent.py                                                            *)
(***************************************************************************)
WellFormedKey(key) == key = "sk-key"     \* openai_key and openai_key.startswith("sk-")

\* A line of a file is a sequence of characters.
Whitespace == {"\t", " ", "\n"}

\* len(m.group()) for the match of ^\t+ in the line, 0 when it does not match
RECURSIVE LeadingTabs(_)
LeadingTabs(line) ==
    IF line # <<>> /\ Head(line) = "\t" THEN 1 + LeadingTabs(Tail(line)) ELSE 0

\* " " * n
RECURSIVE Spaces(_)
Spaces(n) == IF n <= 0 THEN <<>> ELSE <<" ">> \o Spaces(n - 1)

\* re.sub(r"^\t+", lambda m: "    " * len(m.group()), line)
ExpandLeadingTabs(line) ==
    Spaces(4 * LeadingTabs(line)) \o SubSeq(line, LeadingTabs(line) + 1, Len(line))

\* str.rstrip()
RECURSIVE RStrip(_)
RStrip(line) ==
    IF line # <<>> /\ line[Len(line)] \in Whitespace
    THEN RStrip(SubSeq(line, 1, Len(line) - 1))
    ELSE line

\* faulty variant of _rule_based_fix: the transform of RULE_BASED_FIXES, which
\* replaces the first tab only
_rule_based_fix_first_tab(failure, code_lines) ==
    LET line_idx == failure.line - 1
    IN  IF failure.bug_type = "INDENTATION" /\ 0 <= line_idx /\ line_idx < Len(code_lines)
        THEN [description |-> "fix indentation to use 4 spaces consistently",
              lines |-> [code_lines EXCEPT ![line_idx + 1] =
                            IF LeadingTabs(@) > 0 THEN Spaces(4) \o Tail(@) ELSE @]]
        ELSE [description |-> "apply automated fix", lines |-> code_lines]

\* faulty variant of _rule_based_fix: every bug type but INDENTATION handled
\* by the IMPORT rule
_rule_based_fix_comment_out(failure, code_lines) ==
    LET line_idx == failure.line - 1
    IN  IF failure.bug_type = "INDENTATION" /\ 0 <= line_idx /\ line_idx < Len(code_lines)
        THEN [description |-> "fix indentation to use 4 spaces consistently",
              lines |-> [code_lines EXCEPT ![line_idx + 1] = ExpandLeadingTabs(@)]]
        ELSE IF 0 <= line_idx /\ line_idx < Len(code_lines)
        THEN [description |-> "remove the unused import statement",
              lines |-> [code_lines EXCEPT ![line_idx + 1] =
                            <<"#", " ">> \o RStrip(@)
                            \o <<" ", " ", "# removed unused import", "\n">>]]
        ELSE [description |-> "apply automated fix", lines |-> code_lines]

\* _rule_based_fix: (description, new_lines)
_rule_based_fix(failure, code_lines) ==
    LET bug_type == failure.bug_type
        line_idx == failure.line - 1
    IN  IF bug_type = "INDENTATION" /\ 0 <= line_idx /\ line_idx < Len(code_lines)
        THEN [description |-> "fix indentation to use 4 spaces consistently",
              lines |-> [code_lines EXCEPT ![line_idx + 1] = ExpandLeadingTabs(@)]]
        ELSE IF bug_type = "IMPORT" /\ 0 <= line_idx /\ line_idx < Len(code_lines)
        THEN [description |-> "remove the unused import statement",
              lines |-> [code_lines EXCEPT ![line_idx + 1] =
                            <<"#", " ">> \o RStrip(@)
                            \o <<" ", " ", "# removed unused import", "\n">>]]
        ELSE [description |-> "apply automated fix", lines |-> code_lines]

Min(a, b) == IF a <= b THEN a ELSE b

\* str.lstrip(), str.strip()
RECURSIVE LStrip(_)
LStrip(text) ==
    IF text # <<>> /\ Head(text) \in Whitespace THEN LStrip(Tail(text)) ELSE text

Strip(text) == LStrip(RStrip(text))

\* str.splitlines(keepends=True)
RECURSIVE SplitLines(_, _)
SplitLines(text, line) ==
    IF text = <<>> THEN (IF line = <<>> THEN <<>> ELSE <<line>>)
    ELSE IF Head(text) = "\n"
         THEN <<Append(line, "\n")>> \o SplitLines(Tail(text), <<>>)
         ELSE SplitLines(Tail(text), Append(line, Head(text)))

\* "".join(lines)
RECURSIVE Join(_)
Join(lines) == IF lines = <<>> THEN <<>> ELSE Head(lines) \o Join(Tail(lines))

\* What the chat completion does when called: it fails (unreachable, timeout,
\* any exception), or it returns a text, taken here as its two sections, None
\* for a section whose marker is missing.
LLMErrorText == <<"# LLM error">>

_call_llm(llm) ==
    IF llm.failed
    THEN [desc |-> "rule-based fix applied", code |-> LLMErrorText]
    ELSE llm.response

_parse_llm_response(response) ==
    [fix_desc |-> IF response.desc = None THEN "apply automated fix" ELSE response.desc,
     fixed_code |-> IF response.code = None THEN <<>> ELSE Strip(response.code)]

\* faulty variant of PathExists: the check for the file left out
PathExists_unchecked(env) == TRUE

\* Path(abs_path).exists(), after the search by file name under the clone
PathExists(env) == env.file # "missing"

\* the outcome of _apply_fix: the FixRecord, or the exception that left it;
\* the lines it wrote to the file, None when it wrote none; whether it
\* called the LLM
Fixed(fix, written, llm_called) ==
    [raised |-> FALSE, fix |-> fix, written |-> written, llm_called |-> llm_called]

\* _apply_fix.  _read_file_lines is enclosed by no try block of _apply_fix or
\* of fix_agent.
_apply_fix(f, openai_key, env) ==
    IF ~PathExists(env)
    THEN Fixed(FixRecord(f, "file not found - skipped", <<>>, "failed"), None, FALSE)
    ELSE IF env.file = "unreadable"
    THEN [raised |-> TRUE, fix |-> None, written |-> None, llm_called |-> FALSE]
    ELSE
    LET original_lines == env.lines
        use_llm == WellFormedKey(openai_key)
        start == Max(0, f.line - 11)
        end == Min(Len(original_lines), f.line + 10)
        parsed == _parse_llm_response(_call_llm(env.llm))
        replacement == SplitLines(parsed.fixed_code, <<>>)
        spliced == SubSeq(original_lines, 1, start) \o replacement
                   \o SubSeq(original_lines, end + 1, Len(original_lines))
        rule == _rule_based_fix(f, original_lines)
    IN  IF use_llm /\ parsed.fixed_code # <<>>
        THEN IF env.file = "readonly"
             THEN Fixed(FixRecord(f, "LLM fix write error", <<>>, "failed"), None, TRUE)
             ELSE Fixed(FixRecord(f, parsed.fix_desc, parsed.fixed_code, "applied"),
                        spliced, TRUE)
        ELSE IF env.file = "readonly"
             THEN Fixed(FixRecord(f, "rule-based fix error", <<>>, "failed"), None, use_llm)
             ELSE Fixed(FixRecord(f, rule.description, Join(rule.lines), "applied"),
                        rule.lines, use_llm)

RECURSIVE ApplyAll(_, _, _, _)
ApplyAll(failures, openai_key, envs, i) ==
    IF i > Len(failures) THEN [raised |-> FALSE, fixes |-> <<>>]
    ELSE LET one == _apply_fix(failures[i], openai_key, envs[i])
         IN  IF one.raised THEN [raised |-> TRUE, fixes |-> <<>>]
             ELSE LET rest == ApplyAll(failures, openai_key, envs, i + 1)
                  IN  IF rest.raised THEN rest
                      ELSE [raised |-> FALSE, fixes |-> <<one.fix>> \o rest.fixes]

fix_agent(s, envs) ==
    IF s.failures = <<>> \/ s.status = "failed" THEN Ret(s)
    ELSE
    LET timeline == Append(s.cicd_timeline, Ev("fix_started", "running"))
        all == ApplyAll(s.failures, s.openai_key, envs, 1)
        applied == CountIf(all.fixes, "applied")
    IN  IF all.raised THEN Raise(s, "PermissionError")
        ELSE Ret([s EXCEPT !.fixes = all.fixes,
                           !.cicd_timeline =
                               Append(timeline,
                                      Ev("fix_complete",
                                         IF applied > 0 THEN "success" ELSE "failure"))])

(***************************************************************************)
(* git_agent.py                                                            *)
(***************************************************************************)
BranchName == "TEAM_LEADER_AI_Fix"

git_agent(s, o) ==
    IF s.clone_path = "" \/ s.status = "failed" THEN s
    ELSE
    LET timeline == Append(s.cicd_timeline, Ev("git_started", "running"))
    IN  CASE o = "nothing_to_commit" ->
                [s EXCEPT !.branch_name = BranchName,
                          !.commit_sha = "",
                          !.cicd_timeline =
                              Append(timeline, Ev("git_nothing_to_commit", "success"))]
          [] o = "pushed" ->
                [s EXCEPT !.branch_name = BranchName,
                          !.commit_sha = Sha,
                          !.cicd_timeline = Append(timeline, Ev("git_pushed", "success"))]
          [] OTHER ->
                [s EXCEPT !.branch_name = BranchName,
                          !.commit_sha = "",
                          !.cicd_timeline = Append(timeline, Ev("git_failed", "failure")),
                          !.error_message = "git error"]

(***************************************************************************)
(* cicd_agent.py                                                           *)
(***************************************************************************)
\* max_polls
MaxPolls == 60

\* the answer to the i-th status request
get_workflow_status(o, i) == o.answers[Min(i, Len(o.answers))]

\* the poll loop with a budget of max_polls iterations: the CI outcome it ends
\* with, the timeline (one event per change of the workflow status), and the
\* number of status requests made
PollLoopUpTo(o, timeline, max_polls) ==
    LET status(i) == IF i = 0 THEN "" ELSE get_workflow_status(o, i).status
        ends == {i \in 1..max_polls : status(i) \in {"completed", "raise"}}
        polls == IF ends = {} THEN max_polls
                 ELSE CHOOSE i \in ends : \A j \in ends : i <= j
        changes == SelectSeq([i \in 1..polls |-> i],
                             LAMBDA i : status(i) # "raise" /\ status(i) # status(i - 1))
        logged == timeline \o
                  [n \in 1..Len(changes) |->
                      LET a == get_workflow_status(o, changes[n])
                      IN  Ev("cicd_" \o a.status,
                             IF a.status \in {"queued", "in_progress"} THEN "running"
                             ELSE IF a.conclusion = "success" THEN "success"
                             ELSE "failure")]
        last == get_workflow_status(o, polls)
    IN  IF ends = {}
        THEN [cicd_status |-> "failure",
              timeline |-> Append(logged, Ev("cicd_timeout", "failure")),
              polls |-> polls]
        ELSE IF last.status = "raise"
        THEN [cicd_status |-> "failure",
              timeline |-> Append(logged, Ev("cicd_error", "failure")),
              polls |-> polls]
        ELSE [cicd_status |-> IF last.conclusion = "success" THEN "success" ELSE "failure",
              timeline |-> logged,
              polls |-> polls]

\* faulty variant of PollLoop: one more request after max_polls
PollLoop_one_more(o, timeline) == PollLoopUpTo(o, timeline, MaxPolls + 1)

\* for _ in range(max_polls)
PollLoop(o, timeline) == PollLoopUpTo(o, timeline, MaxPolls)

\* faulty variant of simulated_ci_status: a cycle without failures passes too
simulated_ci_status_clean_passes(s) ==
    IF CountIf(s.fixes, "applied") > 0 \/ Len(s.failures) = 0 THEN "success" ELSE "failure"

\* the CI result inferred from the fix results when nothing can be polled
simulated_ci_status(s) ==
    LET applied == CountIf(s.fixes, "applied")
    IN  IF applied > 0 /\ Len(s.failures) > 0 THEN "success" ELSE "failure"

cicd_agent(s, o) ==
    IF s.github_token = "" \/ s.commit_sha = ""
    THEN LET ci_status == simulated_ci_status(s)
         IN  [s EXCEPT !.cicd_status = ci_status,
                       !.cicd_timeline =
                           Append(s.cicd_timeline, Ev("cicd_simulated", ci_status))]
    ELSE IF o.url = "bad"
    THEN [s EXCEPT !.cicd_status = "pending",
                   !.cicd_timeline =
                       Append(s.cicd_timeline, Ev("cicd_skipped", "pending"))]
    ELSE
    LET timeline == Append(s.cicd_timeline, Ev("cicd_polling_started", "running"))
        polled == PollLoop(o, timeline)
    IN  IF o.run_id = "raise"
        THEN [s EXCEPT !.cicd_status = "failure",
                       !.cicd_timeline = Append(timeline, Ev("cicd_error", "failure"))]
        ELSE IF o.run_id = None
        THEN [s EXCEPT !.cicd_status = "pending",
                       !.cicd_timeline = Append(timeline, Ev("cicd_no_workflow", "pending"))]
        ELSE [s EXCEPT !.cicd_status = polled.cicd_status,
                       !.cicd_timeline = polled.timeline]

\* the number of status requests cicd_agent makes
status_polls(s, o) ==
    IF s.github_token = "" \/ s.commit_sha = "" THEN 0
    ELSE IF o.url = "bad" \/ o.run_id \in {"raise", None} THEN 0
    ELSE PollLoop(o, <<>>).polls

(***************************************************************************)
(* What a node does outside the AgentState: the tools it invokes, the      *)
(* files it writes in the clone, the commits and pushes, the calls to the  *)
(* remote CI.                                                              *)
(***************************************************************************)
\* subprocess.run of pytest, then of flake8 unless the first run raised
analyze_effects(s, o) ==
    IF s.clone_path = "" \/ s.status = "failed" THEN {}
    ELSE IF o.raised THEN {"run_tests"}
    ELSE {"run_tests", "run_lint"}

\* _write_file_lines succeeds for a file that is there and writable, when the
\* loop over the failures gets to it
fix_effects(s, envs) ==
    IF s.failures = <<>> \/ s.status = "failed" THEN {}
    ELSE IF \E i \in 1..Len(s.failures) :
                /\ envs[i].file = "ok"
                /\ \A j \in 1..(i - 1) : envs[j].file # "unreadable"
         THEN {"write_file"}
         ELSE {}

\* git commit and git push; a failed publish got as far as the commit
git_effects(s, o) ==
    IF s.clone_path = "" \/ s.status = "failed" THEN {}
    ELSE CASE o = "nothing_to_commit" -> {}
           [] o = "pushed" -> {"commit", "push"}
           [] OTHER -> {"commit"}

\* faulty variant of cicd_effects: the remote CI asked whenever a token is there
cicd_effects_eager(s, o) ==
    IF s.github_token = "" THEN {}
    ELSE IF o.url = "bad" THEN {}
    ELSE {"poll_ci"}

\* get_latest_workflow_run and get_workflow_status
cicd_effects(s, o) ==
    IF s.github_token = "" \/ s.commit_sha = "" THEN {}
    ELSE IF o.url = "bad" THEN {}
    ELSE {"poll_ci"}

(***************************************************************************)
(* score_agent.py.  Scores are in hundredths of a point.                   *)
(***************************************************************************)
\* a score component before rounding, as the fraction num / den of a point
Frac(n, d) == [num |-> n, den |-> d]

\* faulty variant of tests_score: no branch for a run without tests
tests_score_unguarded(s) == Frac(40 * s.tests_passed, s.total_tests)

\* faulty variant of tests_score: a run without tests earns nothing
tests_score_no_default(s) ==
    IF s.total_tests > 0 THEN Frac(40 * s.tests_passed, s.total_tests)
    ELSE Frac(0, 1)

tests_score(s) ==
    IF s.total_tests > 0 THEN Frac(40 * s.tests_passed, s.total_tests)
    ELSE IF Len(s.failures) = 0 THEN Frac(40, 1)
    ELSE Frac(0, 1)

\* faulty variant of fix_quality_score: the FixRecords counted, applied or not
fix_quality_score_all(s) ==
    IF Len(s.failures) > 0 THEN Frac(40 * Len(s.fixes), Len(s.failures))
    ELSE Frac(40, 1)

fix_quality_score(s) ==
    IF Len(s.failures) > 0 THEN Frac(40 * CountIf(s.fixes, "applied"), Len(s.failures))
    ELSE Frac(40, 1)

\* faulty variant of ci_bonus: the bonus only for a CI success
ci_bonus_strict(s) == IF s.cicd_status = "success" THEN 20 ELSE 0

ci_bonus(s) ==
    IF s.cicd_status = "success" THEN 20
    ELSE IF Len(s.failures) = 0 /\ s.total_tests = 0 THEN 20
    ELSE 0

speed_bonus(s) == IF s.duration_seconds < SpeedLimitSeconds THEN 10 ELSE 0

\* faulty variant of efficiency_penalty: the first commit not counted
efficiency_penalty_retries_only(s) ==
    Max(0, (s.retry_count - FreeCommits) * PenaltyPerCommit)

efficiency_penalty(s) ==
    LET total_commits == s.retry_count + 1
    IN  Max(0, (total_commits - FreeCommits) * PenaltyPerCommit)

\* faulty variant of run_status: the status of a failed run kept
run_status_keep_failed(s, total_score) ==
    IF s.status = "failed" THEN "failed"
    ELSE IF total_score >= 100 * PassMark THEN "success" ELSE "partial"

\* the status score_agent returns
run_status(s, total_score) ==
    IF total_score >= 100 * PassMark THEN "success" ELSE "partial"

score_agent(s) ==
    LET total_tests == s.total_tests
        tests_passed == s.tests_passed
        total_failures == Len(s.failures)
        applied_fixes == CountIf(s.fixes, "applied")
        t == tests_score(s)
        f == fix_quality_score(s)
        pct == IF total_tests > 0 THEN RoundDiv(1000 * tests_passed, total_tests) * 10
               ELSE IF total_failures = 0 THEN 10000 ELSE 0
        den == t.den * f.den
        base_num == t.num * f.den + f.num * t.den + ci_bonus(s) * den
        total_num == Max(0, base_num + (speed_bonus(s) - efficiency_penalty(s)) * den)
        total_score == RoundDiv(100 * total_num, den)
        breakdown ==
            [tests_passed_pct |-> pct,
             fixes_applied |-> applied_fixes,
             fix_quality_score |-> RoundDiv(100 * f.num, f.den),
             ci_success_bonus |-> 100 * ci_bonus(s),
             base_score |-> RoundDiv(100 * base_num, den),
             speed_bonus |-> 100 * speed_bonus(s),
             efficiency_penalty |-> 100 * efficiency_penalty(s),
             total_score |-> total_score]
    IN  [s EXCEPT !.score = breakdown,
                  !.cicd_timeline = Append(s.cicd_timeline, Ev("score_calculated", "success")),
                  !.status = run_status(s, total_score)]

\* the score node: a division by zero in one of the two quotients would
\* leave the node as a ZeroDivisionError
score_node(s) ==
    IF tests_score(s).den = 0 \/ fix_quality_score(s).den = 0
    THEN Raise(s, "ZeroDivisionError")
    ELSE Ret(score_agent(s))

(***************************************************************************)
(* orchestrator.py: the conditional edge and the retry node.               *)
(***************************************************************************)
\* faulty variants of should_retry: the budget test off by one; the CI outcome not looked at
should_retry_late(s) ==
    IF s.status = "failed" THEN "score"
    ELSE IF s.cicd_status = "success" THEN "score"
    ELSE IF s.retry_count > s.retry_limit THEN "score"
    ELSE "analyze"

should_retry_blind(s) ==
    IF s.status = "failed" THEN "score"
    ELSE IF s.retry_count >= s.retry_limit THEN "score"
    ELSE "analyze"

\* faulty variant of should_retry: a pending CI outcome ends the run
should_retry_pending_ends(s) ==
    IF s.status = "failed" THEN "score"
    ELSE IF s.cicd_status \in {"success", "pending"} THEN "score"
    ELSE IF s.retry_count >= s.retry_limit THEN "score"
    ELSE "analyze"

should_retry(s) ==
    IF s.status = "failed" THEN "score"
    ELSE IF s.cicd_status = "success" THEN "score"
    ELSE IF s.retry_count >= s.retry_limit THEN "score"
    ELSE "analyze"

\* faulty variant of increment_retry: the counter bumped twice on the retry path
increment_retry_twice(s) ==
    [s EXCEPT !.retry_count = s.retry_count + 2, !.fixes = <<>>]

\* faulty variant of increment_retry: the FixRecords of the last cycle kept
increment_retry_keep(s) ==
    [s EXCEPT !.retry_count = s.retry_count + 1]

\* faulty variant of increment_retry: the new cycle started with an empty timeline
increment_retry_new_timeline(s) ==
    [s EXCEPT !.retry_count = s.retry_count + 1, !.fixes = <<>>, !.cicd_timeline = <<>>]

\* faulty variant of increment_retry: the CI outcome of the last cycle forgotten
increment_retry_reset_ci(s) ==
    [s EXCEPT !.retry_count = s.retry_count + 1, !.fixes = <<>>, !.cicd_status = "pending"]

increment_retry(s) ==
    [s EXCEPT !.retry_count = s.retry_count + 1, !.fixes = <<>>]


(***************************************************************************)
(* results.py: write_results' payload.                                     *)
(***************************************************************************)
_format_fixes_output(fixes) ==
    [i \in 1..Len(fixes) |->
        <<fixes[i].bug_type, "error in", fixes[i].file, "line", fixes[i].line,
          "Fix:", fixes[i].fix_description>>]

Payload(s) ==
    [run_id |-> s.run_id,
     branch_name |-> s.branch_name,
     commit_sha |-> s.commit_sha,
     language |-> s.language,
     status |-> s.status,
     duration_seconds |-> s.duration_seconds,
     retry_count |-> s.retry_count,
     retry_limit |-> s.retry_limit,
     test_summary |-> [total_tests |-> s.total_tests,
                       tests_passed |-> s.tests_passed,
                       tests_failed |-> s.tests_failed],
     failures |-> s.failures,
     fixes |-> s.fixes,
     fixes_formatted_output |-> _format_fixes_output(s.fixes),
     score |-> s.score,
     cicd_timeline |-> s.cicd_timeline,
     cicd_status |-> s.cicd_status,
     error_message |-> s.error_message]

(***************************************************************************)
(* main.py: the published state, the handlers and the background task.     *)
(***************************************************************************)
IdleState == [status |-> "idle", run_id |-> None, data |-> NoData, error |-> None]

\* elapsed wall-clock seconds run_pipeline can measure
Durations == {100, 400}

NoTask ==
    [pc |-> "idle", request |-> None, state |-> None, exc |-> None,
     trace |-> <<>>, ci_log |-> <<>>]

Init ==
    /\ pipeline_state = IdleState
    /\ results_file = NoFile
    /\ tasks = [r \in RunIds |-> NoTask]
    /\ last_response = "none"

\* a task that was accepted and whose function has not returned
InFlight(r) == tasks[r].pc \notin {"idle", "done"}

NextRun == IF \E r \in RunIds : tasks[r].pc = "idle"
           THEN CHOOSE r \in RunIds :
                    tasks[r].pc = "idle" /\ \A q \in RunIds : tasks[q].pc = "idle" => r <= q
           ELSE 0

\* POST /api/run-agent
run_agent(req) ==
    IF pipeline_state.status = "running"
    THEN /\ last_response' = "conflict"
         /\ UNCHANGED <<pipeline_state, results_file, tasks>>
    ELSE /\ NextRun # 0
         /\ pipeline_state' = [status |-> "queued", run_id |-> None,
                               data |-> NoData, error |-> None]
         /\ tasks' = [tasks EXCEPT ![NextRun] =
                         [NoTask EXCEPT !.pc = "queued", !.request = req]]
         /\ last_response' = "queued"
         /\ UNCHANGED results_file

\* faulty variant of reset_pipeline: results.json removed as well
reset_pipeline_remove_file ==
    /\ pipeline_state' = IdleState
    /\ results_file' = NoFile
    /\ last_response' = "reset"
    /\ UNCHANGED tasks

\* POST /api/reset
reset_pipeline ==
    /\ pipeline_state' = IdleState
    /\ last_response' = "reset"
    /\ UNCHANGED <<results_file, tasks>>

\* GET /api/status
get_status ==
    [status |-> pipeline_state.status,
     run_id |-> pipeline_state.run_id,
     message |-> IF pipeline_state.error # None THEN pipeline_state.error
                 ELSE <<"Pipeline is", pipeline_state.status>>]

\* GET /api/results: the published data, else results.json, else 404
NotFound == [status_code |-> 404, detail |-> "No results available yet"]

get_results ==
    IF pipeline_state.data # NoData THEN pipeline_state.data
    ELSE IF results_file # NoFile THEN results_file
    ELSE NotFound

\* GET /api/timeline
get_timeline ==
    [status |-> pipeline_state.status,
     timeline |-> IF pipeline_state.data # NoData
                  THEN pipeline_state.data.cicd_timeline ELSE <<>>]

\* _run_pipeline_task, first lock section; then run_pipeline builds initial_state
TaskStart(r) ==
    /\ tasks[r].pc = "queued"
    /\ pipeline_state' = [pipeline_state EXCEPT !.status = "running", !.error = None]
    /\ tasks' = [tasks EXCEPT ![r].pc = "clone",
                              ![r].state = initial_state(tasks[r].request, r)]
    /\ UNCHANGED <<results_file, last_response>>

\* one node of graph.invoke: the node's result and the edge taken after it
Advance(r, node, res, next) ==
    /\ tasks' = [tasks EXCEPT
                    ![r].pc = IF res.raised THEN "except" ELSE next,
                    ![r].state = res.state,
                    ![r].exc = IF res.raised THEN res.exc ELSE None,
                    ![r].trace = Append(tasks[r].trace, node),
                    ![r].ci_log = IF node = "cicd_monitor" /\ ~res.raised
                                  THEN Append(tasks[r].ci_log, res.state.cicd_status)
                                  ELSE tasks[r].ci_log]
    /\ UNCHANGED <<pipeline_state, results_file, last_response>>

CloneStep(r) ==
    /\ tasks[r].pc = "clone"
    /\ \E o \in CloneOutcomes :
          Advance(r, "clone", Ret(clone_agent(tasks[r].state, o)), "analyze")

AnalyzeStep(r) ==
    /\ tasks[r].pc = "analyze"
    /\ \E o \in ToolOutputs :
          Advance(r, "analyze", Ret(analyze_agent(tasks[r].state, o)), "fix")

FixStep(r) ==
    /\ tasks[r].pc = "fix"
    /\ \E envs \in [1..Len(tasks[r].state.failures) -> FixEnvs] :
          Advance(r, "fix", fix_agent(tasks[r].state, envs), "git")

GitStep(r) ==
    /\ tasks[r].pc = "git"
    /\ \E o \in GitOutcomes :
          Advance(r, "git", Ret(git_agent(tasks[r].state, o)), "cicd_monitor")

\* faulty variant of CicdStep: the retry edge leads back to analyze directly
CicdStep_straight_to_analyze(r) ==
    /\ tasks[r].pc = "cicd_monitor"
    /\ \E o \in CiOutcomes :
          LET v == cicd_agent(tasks[r].state, o)
          IN  Advance(r, "cicd_monitor", Ret(v),
                      IF should_retry(v) = "score" THEN "score" ELSE "analyze")

\* cicd_monitor and the conditional edge after it (build_graph)
CicdStep(r) ==
    /\ tasks[r].pc = "cicd_monitor"
    /\ \E o \in CiOutcomes :
          LET v == cicd_agent(tasks[r].state, o)
          IN  Advance(r, "cicd_monitor", Ret(v),
                      IF should_retry(v) = "score" THEN "score" ELSE "increment_retry")

IncrementRetryStep(r) ==
    /\ tasks[r].pc = "increment_retry"
    /\ Advance(r, "increment_retry", Ret(increment_retry(tasks[r].state)), "analyze")

ScoreStep(r) ==
    /\ tasks[r].pc = "score"
    /\ Advance(r, "score", score_node(tasks[r].state), "END")

\* run_pipeline after graph.invoke: finished_at, duration_seconds, return
ReturnStep(r) ==
    /\ tasks[r].pc = "END"
    /\ \E d \in Durations :
          tasks' = [tasks EXCEPT ![r].pc = "write", ![r].state.duration_seconds = d]
    /\ UNCHANGED <<pipeline_state, results_file, last_response>>

\* faulty variant of WriteResults: an error of the write passed over
WriteResults_swallow(r) ==
    /\ tasks[r].pc = "write"
    /\ \/ results_file' = Payload(tasks[r].state)
       \/ UNCHANGED results_file
    /\ tasks' = [tasks EXCEPT ![r].pc = "publish"]
    /\ UNCHANGED <<pipeline_state, last_response>>

\* write_results(final_state); open() or json.dump may raise
WriteResults(r) ==
    /\ tasks[r].pc = "write"
    /\ \/ /\ results_file' = Payload(tasks[r].state)
          /\ tasks' = [tasks EXCEPT ![r].pc = "publish"]
       \/ /\ tasks' = [tasks EXCEPT ![r].pc = "except", ![r].exc = "OSError results.json"]
          /\ UNCHANGED results_file
    /\ UNCHANGED <<pipeline_state, last_response>>

\* second lock section of _run_pipeline_task
Publish(r) ==
    /\ tasks[r].pc = "publish"
    /\ pipeline_state' = [pipeline_state EXCEPT
                             !.status = tasks[r].state.status,
                             !.run_id = tasks[r].state.run_id,
                             !.data = tasks[r].state]
    /\ tasks' = [tasks EXCEPT ![r].pc = "done"]
    /\ UNCHANGED <<results_file, last_response>>

\* except Exception as exc
HandleException(r) ==
    /\ tasks[r].pc = "except"
    /\ pipeline_state' = [pipeline_state EXCEPT
                             !.status = "failed", !.error = tasks[r].exc]
    /\ tasks' = [tasks EXCEPT ![r].pc = "done"]
    /\ UNCHANGED <<results_file, last_response>>

(***************************************************************************)
(* Spec: one trigger on a fresh server, its task run node by node.         *)
(***************************************************************************)
FirstTrigger ==
    /\ \A r \in RunIds : tasks[r].pc = "idle"
    /\ \E req \in Requests : run_agent(req)

Next ==
    \/ FirstTrigger
    \/ \E r \in RunIds : TaskStart(r)
    \/ \E r \in RunIds : CloneStep(r)
    \/ \E r \in RunIds : AnalyzeStep(r)
    \/ \E r \in RunIds : FixStep(r)
    \/ \E r \in RunIds : GitStep(r)
    \/ \E r \in RunIds : CicdStep(r)
    \/ \E r \in RunIds : IncrementRetryStep(r)
    \/ \E r \in RunIds : ScoreStep(r)
    \/ \E r \in RunIds : ReturnStep(r)
    \/ \E r \in RunIds : WriteResults(r)
    \/ \E r \in RunIds : Publish(r)
    \/ \E r \in RunIds : HandleException(r)

Spec == Init /\ [][Next]_vars


(***************************************************************************)
(* SpecServer: the server under several triggers and resets.  The nodes of *)
(* one task read and write only that task's own state, so graph.invoke is  *)
(* taken here as one step, computed by the node operators above along the  *)
(* edges of build_graph.                                                   *)
(***************************************************************************)
\* the requests clients send in this specification, and what the world
\* answers during each cycle of a run: a fix applied, or a file to fix that
\* cannot be read
ServerRequests ==
    {req \in Requests :
        req.retry_limit = MaxRetryLimit /\ req.github_token = "" /\ req.openai_key = ""}

CycleOutcomes ==
    {[tool |-> [raised |-> FALSE, raw |-> <<F1>>, total |-> 2, passed |-> 1,
                lint |-> LintRan(<<>>)],
      env |-> [file |-> e, lines |-> RepoFile, llm |-> LLMMalformed], git |-> "pushed",
      ci |-> [url |-> "ok", run_id |-> "1",
             answers |-> <<WorkflowAnswer("in_progress", None),
                           WorkflowAnswer("completed", "failure")>>]] :
        e \in {"ok", "unreadable"}}

RECURSIVE RunCycles(_, _)
RunCycles(s, c) ==
    LET a == analyze_agent(s, c.tool)
        f == fix_agent(a, [i \in 1..Len(a.failures) |-> c.env])
        v == cicd_agent(git_agent(f.state, c.git), c.ci)
    IN  IF f.raised THEN f
        ELSE IF should_retry(v) = "score" THEN score_node(v)
        ELSE RunCycles(increment_retry(v), c)

RunGraph(s, co, c) == RunCycles(clone_agent(s, co), c)

\* run_pipeline as one step: graph.invoke, then finished_at and duration_seconds
RunPipeline(r) ==
    /\ tasks[r].pc = "clone"
    /\ \E co \in CloneOutcomes, c \in CycleOutcomes, d \in Durations :
          LET res == RunGraph(tasks[r].state, co, c)
          IN  tasks' = [tasks EXCEPT
                  ![r].pc = IF res.raised THEN "except" ELSE "write",
                  ![r].state = IF res.raised THEN res.state
                               ELSE [res.state EXCEPT !.duration_seconds = d],
                  ![r].exc = IF res.raised THEN res.exc ELSE None]
    /\ UNCHANGED <<pipeline_state, results_file, last_response>>

Trigger == \E req \in ServerRequests : run_agent(req)

NextServer ==
    \/ Trigger
    \/ reset_pipeline
    \/ \E r \in RunIds : TaskStart(r)
    \/ \E r \in RunIds : RunPipeline(r)
    \/ \E r \in RunIds : WriteResults(r)
    \/ \E r \in RunIds : Publish(r)
    \/ \E r \in RunIds : HandleException(r)

SpecServer == Init /\ [][NextServer]_vars


(***************************************************************************)
(* SpecUnit: one node function applied on its own to arguments drawn from  *)
(* bounded sets.  A task here is one call: its arguments, then its result. *)
(***************************************************************************)
MaxRaw == 3
MaxLineLen == 3

\* a third FailureEvent at b.py:2, of another bug type than F2
F3 == [bug_type |-> "LINTING", file |-> "b.py", line |-> 2, message |-> "m4"]

\* what the parsers can extract from one tool output, duplicates included
RawLists == UNION {[1..n -> {F1, F2, F1again, F3}] : n \in 0..MaxRaw}

UnitRequest == [retry_limit |-> MaxRetryLimit, github_token |-> "", openai_key |-> ""]

\* the AgentState analyze receives after a clone that succeeded
ClonedState ==
    clone_agent(initial_state(UnitRequest, 1), [ok |-> TRUE, language |-> "python"])

\* what the lint tool can do in one call
LintOutcomes == {LintRan(<<>>), LintRan(<<F3>>), LintTimeout, LintMissing}

AnalyzeCalls ==
    {[pc |-> "analyze_call", state |-> ClonedState,
      tool |-> [raised |-> FALSE, raw |-> raw, total |-> 0, passed |-> 0,
                lint |-> lint]] @@ NoTask :
        raw \in RawLists, lint \in LintOutcomes}
    \cup
    {[pc |-> "analyze_call", state |-> ClonedState,
      tool |-> [raised |-> TRUE, raw |-> <<>>, total |-> 0, passed |-> 0,
                lint |-> LintRan(<<>>)]] @@ NoTask}

\* the fields of the AgentState score_agent reads
ScoreCounts == {0, 1, 2, 5, 10}
ScoreFailures == {<<>>, <<F1>>, <<F1, F2>>}
ScoreFixes ==
    {[i \in 1..Len(st) |-> FixRecord(F1, "description", "patch", st[i])] :
        st \in UNION {[1..n -> {"applied", "failed"}] : n \in 0..2}}
ScoreDurations == {100, 299, 300, 400}
ScoreRetries == {0, 19, 20, 25}

ScoreCalls ==
    {[NoTask EXCEPT
         !.pc = "score",
         !.state = [initial_state(UnitRequest, 1) EXCEPT
                       !.total_tests = tt, !.tests_passed = tp,
                       !.failures = fl, !.fixes = fx, !.cicd_status = ci,
                       !.duration_seconds = d, !.retry_count = rc]] :
        tt \in ScoreCounts, tp \in ScoreCounts, fl \in ScoreFailures,
        fx \in ScoreFixes, ci \in {"pending", "success", "failure"},
        d \in ScoreDurations, rc \in ScoreRetries}

\* files of one line, or of two with a neighbour line before or after it,
\* and a failure reported at a line of them or not
Lines == UNION {[1..n -> {"\t", " ", "x"}] : n \in 0..MaxLineLen}
NeighbourLines == {<<"\t", "x">>, <<"x", "\t">>}
Files ==
    {<<l>> : l \in Lines}
    \cup {<<l, k>> : l \in Lines, k \in NeighbourLines}
    \cup {<<k, l>> : l \in Lines, k \in NeighbourLines}

RuleFixCalls ==
    {[pc |-> "rule_fix_call", code_lines |-> file, fixed |-> None,
      failure |-> [bug_type |-> bt, file |-> "b.py", line |-> ln, message |-> "m"]]
     @@ NoTask :
        file \in Files, bt \in {"INDENTATION", "IMPORT", "LOGIC"}, ln \in 0..3}

\* a file longer than the context window of a failure at its first or at its
\* last line
LongFile ==
    <<<<"a", "\n">>, <<"b", "\n">>, <<"c", "\n">>, <<"d", "\n">>, <<"e", "\n">>, <<"f", "\n">>,
      <<"g", "\n">>, <<"h", "\n">>, <<"i", "\n">>, <<"j", "\n">>, <<"k", "\n">>, <<"l", "\n">>>>

\* the lines at which the failures of these calls are reported
FixLines == {1, 2, 3, Len(LongFile)}

\* _apply_fix on one failure: the key of the request, the file and the LLM
UnitFixEnvs ==
    [file : {"ok", "missing", "readonly", "unreadable"},
     lines : {RepoFile, <<<<"\t", "\t", "x", "\n">>>>, LongFile},
     llm : {LLMProposal, LLMMalformed, LLMEmptyCode, LLMUnreachable}]

ApplyFixCalls ==
    {[pc |-> "apply_fix_call", openai_key |-> key, env |-> env, outcome |-> None,
      failure |-> [bug_type |-> bt, file |-> "b.py", line |-> ln, message |-> "m"]]
     @@ NoTask :
        key \in {"", "sk-key"}, env \in UnitFixEnvs,
        bt \in {"INDENTATION", "IMPORT", "LOGIC"}, ln \in FixLines}

InitUnit ==
    /\ pipeline_state = IdleState
    /\ results_file = NoFile
    /\ last_response = "none"
    /\ \E c \in AnalyzeCalls \cup ScoreCalls \cup RuleFixCalls \cup ApplyFixCalls :
          tasks = [r \in RunIds |-> IF r = 1 THEN c ELSE NoTask]

AnalyzeCall(r) ==
    /\ tasks[r].pc = "analyze_call"
    /\ tasks' = [tasks EXCEPT
                    ![r].pc = "returned",
                    ![r].state = analyze_agent(tasks[r].state, tasks[r].tool)]
    /\ UNCHANGED <<pipeline_state, results_file, last_response>>

RuleFixCall(r) ==
    /\ tasks[r].pc = "rule_fix_call"
    /\ tasks' = [tasks EXCEPT
                    ![r].pc = "returned",
                    ![r].fixed = _rule_based_fix(tasks[r].failure, tasks[r].code_lines)]
    /\ UNCHANGED <<pipeline_state, results_file, last_response>>

ApplyFixCall(r) ==
    /\ tasks[r].pc = "apply_fix_call"
    /\ tasks' = [tasks EXCEPT
                    ![r].pc = "returned",
                    ![r].outcome = _apply_fix(tasks[r].failure, tasks[r].openai_key,
                                              tasks[r].env)]
    /\ UNCHANGED <<pipeline_state, results_file, last_response>>

NextUnit ==
    \/ \E r \in RunIds : AnalyzeCall(r)
    \/ \E r \in RunIds : RuleFixCall(r)
    \/ \E r \in RunIds : ApplyFixCall(r)
    \/ \E r \in RunIds : ScoreStep(r)

SpecUnit == InitUnit /\ [][NextUnit]_vars


(***************************************************************************)
(* Properties.                                                             *)
(***************************************************************************)
RECURSIVE Count(_, _)
Count(seq, x) ==
    IF seq = <<>> THEN 0
    ELSE (IF Head(seq) = x THEN 1 ELSE 0) + Count(Tail(seq), x)

\* run_pipeline has built the task's AgentState
Started(r) == tasks[r].pc \notin {"idle", "queued"}

Executed(r, node) == Count(tasks[r].trace, node)

\* the score step is about to execute or has executed
AtScore(r) == tasks[r].pc = "score" \/ Executed(r, "score") > 0

\* graph.invoke has returned to run_pipeline
Returned(r) == tasks[r].pc \in {"write", "publish"} \/
               (tasks[r].pc \in {"except", "done"} /\ Executed(r, "score") > 0)

CloneSucceeded(r) == Executed(r, "clone") > 0 /\ tasks[r].state.clone_path # ""
CloneFailed(r) == Executed(r, "clone") > 0 /\ tasks[r].state.clone_path = ""

NeverSuccess(r) == \A i \in 1..Len(tasks[r].ci_log) : tasks[r].ci_log[i] # "success"

C2_FirstSuccessOnePass ==
    \A r \in RunIds :
        (Started(r) /\ Len(tasks[r].ci_log) >= 1 /\ tasks[r].ci_log[1] = "success") =>
            /\ tasks[r].state.retry_count = 0
            /\ AtScore(r)
            /\ Executed(r, "increment_retry") = 0
            /\ \A n \in {"analyze", "fix", "git", "cicd_monitor"} : Executed(r, n) = 1

C2_Witness ==
    \E r \in RunIds :
        /\ tasks[r].ci_log = <<"success">>
        /\ Executed(r, "score") = 1
        /\ tasks[r].state.retry_limit >= 1
        /\ tasks[r].state.retry_count = 0

\* C3 as claimed: in every reachable state of a run, retry_count <= retry_limit,
\* for whatever retry_limit the trigger accepted.
C3_BoundedByRetryLimit ==
    \A r \in RunIds :
        Started(r) => tasks[r].state.retry_count <= tasks[r].state.retry_limit

\* C3 amended: retry_count never decreases from one step of a run to the next,
\* and retry_count <= max(retry_limit, 0) in every reachable state.
C3_MonotoneAndBounded ==
    /\ [](\A r \in RunIds :
            Started(r) =>
                /\ tasks[r].state.retry_count >= 0
                /\ tasks[r].state.retry_count <= Max(tasks[r].state.retry_limit, 0))
    /\ [][\A r \in RunIds :
            (Started(r) /\ Started(r)') =>
                tasks[r].state.retry_count' >= tasks[r].state.retry_count]_vars

C3_Witness ==
    \E r \in RunIds :
        /\ Executed(r, "increment_retry") >= 1
        /\ tasks[r].state.retry_limit >= 1
        /\ tasks[r].state.retry_count = tasks[r].state.retry_limit

\* C4: at most one pipeline run is in flight at any time (a trigger that
\* arrives while an accepted run has not finished starts no second run).
C4_AtMostOneRunInFlight ==
    Cardinality({r \in RunIds : InFlight(r)}) <= 1

\* C5: a trigger handled while a run is in flight changes nothing: the
\* published state and the state of every run in flight are as before.
C5_TriggerWhileActiveChangesNothing ==
    [][(Trigger /\ \E r \in RunIds : InFlight(r)) =>
            /\ pipeline_state' = pipeline_state
            /\ \A r \in RunIds : InFlight(r) => tasks'[r] = tasks[r]]_vars

\* C6: no error leaves a node of the graph: the only exception the task's
\* handler ever catches is one raised outside the graph, by write_results.
C6_NoErrorLeavesAStep ==
    \A r \in RunIds :
        tasks[r].pc = "except" => tasks[r].exc = "OSError results.json"

\* C7: in every run the score step executes exactly once and is the last
\* node executed: never twice, nothing after it, and once in a finished run.
C7_ScoreExactlyOnceAndLast ==
    \A r \in RunIds :
        /\ Executed(r, "score") <= 1
        /\ Executed(r, "score") = 1 =>
               tasks[r].trace[Len(tasks[r].trace)] = "score"
        /\ tasks[r].pc = "done" => Executed(r, "score") = 1

\* C8: every run reaches the end of the graph, after at most
\* max(retry_limit, 0) + 1 cycles of analyze, fix, git, cicd_monitor.
C8_RunReachesEndWithinBudget ==
    \A r \in RunIds :
        /\ Started(r) =>
               \A n \in {"analyze", "fix", "git", "cicd_monitor"} :
                   Executed(r, n) <= Max(tasks[r].state.retry_limit, 0) + 1
        /\ tasks[r].pc \in {"except", "done"} => Returned(r)

\* C9: when a run has ended and writing results.json itself did not fail, the
\* persisted record is that run's, with a defined status and the
\* ScoreBreakdown the score step computed.
C9_EveryEndedRunIsPersisted ==
    \A r \in RunIds :
        (tasks[r].pc = "done" /\ tasks[r].exc # "OSError results.json") =>
            /\ results_file # NoFile
            /\ results_file.run_id = r
            /\ results_file.status \in {"success", "partial", "failed"}
            /\ results_file.score = tasks[r].state.score
            /\ "base_score" \in DOMAIN results_file.score

\* C10: a run whose clone step failed has status failed in the final state
\* the engine returns, in the persisted record and in the published state.
C10_FailedCloneEndsFailed ==
    \A r \in RunIds :
        (CloneFailed(r) /\ Returned(r)) =>
            /\ tasks[r].state.status = "failed"
            /\ tasks[r].pc = "done" =>
                   (get_status.status = "failed" /\
                    (results_file # NoFile => results_file.status = "failed"))

\* C11: each of the steps analyze, fix, git (publish) and cicd_monitor
\* (verify), executed on a state whose status is failed or whose clone_path
\* is empty, returns that state with every field unchanged.
C11_UnmetPreconditionPassesThrough ==
    [][\A r \in RunIds :
          (/\ tasks[r].pc \in {"analyze", "fix", "git", "cicd_monitor"}
           /\ (tasks[r].state.status = "failed" \/ tasks[r].state.clone_path = "")
           /\ tasks'[r].pc # tasks[r].pc)
          => tasks'[r].state = tasks[r].state]_vars

\* C12: once status is failed, whatever the world would answer, no node
\* still to execute before score runs a test or lint tool, writes a file,
\* commits or pushes, or asks the remote CI; and the retry node is not entered.
C12_NoWorkAfterFailed ==
    \A r \in RunIds :
        (Started(r) /\ tasks[r].state.status = "failed") =>
            LET s == tasks[r].state
            IN  /\ tasks[r].pc \notin {"clone", "increment_retry"}
                /\ tasks[r].pc = "analyze" =>
                       \A o \in ToolOutputs : analyze_effects(s, o) = {}
                /\ tasks[r].pc = "fix" =>
                       \A envs \in [1..Len(s.failures) -> FixEnvs] :
                           fix_effects(s, envs) = {}
                /\ tasks[r].pc = "git" =>
                       \A o \in GitOutcomes : git_effects(s, o) = {}
                /\ tasks[r].pc = "cicd_monitor" =>
                       \A o \in CiOutcomes : cicd_effects(s, o) = {}

C12_Witness ==
    \E r \in RunIds :
        /\ tasks[r].pc = "score"
        /\ tasks[r].state.status = "failed"
        /\ tasks[r].state.github_token # ""
        /\ tasks[r].trace = <<"clone", "analyze", "fix", "git", "cicd_monitor">>

\* C13: whenever the fix step has completed, in any cycle, fixes has the
\* length of failures and its i-th FixRecord carries the bug_type, file and
\* line of the i-th FailureEvent.
C13_OneFixRecordPerFailure ==
    \A r \in RunIds :
        tasks[r].pc = "git" =>
            LET s == tasks[r].state
            IN  /\ Len(s.fixes) = Len(s.failures)
                /\ \A i \in 1..Len(s.failures) :
                       /\ s.fixes[i].bug_type = s.failures[i].bug_type
                       /\ s.fixes[i].file = s.failures[i].file
                       /\ s.fixes[i].line = s.failures[i].line

C13_Witness ==
    \E r \in RunIds :
        /\ tasks[r].pc = "git"
        /\ tasks[r].state.retry_count >= 1
        /\ Len(tasks[r].state.failures) = 2
        /\ Len(tasks[r].state.fixes) = 2
        /\ tasks[r].state.fixes[1].status # tasks[r].state.fixes[2].status

\* the call of a node function has returned
AnalyzeReturned(r) == tasks[r].pc = "returned" /\ "tool" \in DOMAIN tasks[r]
RuleFixReturned(r) == tasks[r].pc = "returned" /\ "fixed" \in DOMAIN tasks[r]

SameKey(f, g) == f.bug_type = g.bug_type /\ f.file = g.file /\ f.line = g.line

\* the positions of a list that hold the first occurrence of their key
FirstOccurrences(raw) ==
    {i \in 1..Len(raw) : \A j \in 1..(i - 1) : ~SameKey(raw[j], raw[i])}

\* C14: the failures analyze stores are the extracted list restricted to the
\* first occurrence of each (bug_type, file, line), in the original order:
\* no two stored entries share a key, and each is the first occurrence itself,
\* message included.
C14_DedupeKeepsFirstOccurrences ==
    \A r \in RunIds :
        (AnalyzeReturned(r) /\ ~tasks[r].tool.raised) =>
            LET raw == Extracted(tasks[r].tool)
                stored == tasks[r].state.failures
                first == FirstOccurrences(raw)
            IN  /\ Len(stored) = Cardinality(first)
                /\ \A i \in first :
                       stored[Cardinality({j \in first : j <= i})] = raw[i]
                /\ \A a, b \in 1..Len(stored) :
                       a # b => ~SameKey(stored[a], stored[b])

C14_Witness ==
    \E r \in RunIds :
        /\ AnalyzeReturned(r)
        /\ tasks[r].tool.raw = <<F2, F1, F1again>>
        /\ tasks[r].state.failures = <<F2, F1>>

\* score_agent has returned; its inputs are still in the state
Scored(r) == tasks[r].pc = "END"

Applied(s) == Cardinality({i \in 1..Len(s.fixes) : s.fixes[i].status = "applied"})

\* tests_score, which the ScoreBreakdown holds as a part of base_score
TestsPart(score) == score.base_score - score.fix_quality_score - score.ci_success_bonus

\* C15: with total_tests 0, tests_passed 0, no failures, no applied fix, CI
\* success, 100 seconds and retry_count 0 the score step yields tests_score
\* 40, fix_quality 40, ci_bonus 20, base 100, speed_bonus 10, penalty 0 and
\* total 110 (in hundredths of a point).
C15_CleanRepositoryScores110 ==
    \A r \in RunIds :
        LET s == tasks[r].state
        IN  (/\ Scored(r)
             /\ s.total_tests = 0 /\ s.tests_passed = 0
             /\ Len(s.failures) = 0 /\ Applied(s) = 0
             /\ s.cicd_status = "success"
             /\ s.duration_seconds = 100 /\ s.retry_count = 0)
            => /\ TestsPart(s.score) = 4000
               /\ s.score.fix_quality_score = 4000
               /\ s.score.ci_success_bonus = 2000
               /\ s.score.base_score = 10000
               /\ s.score.speed_bonus = 1000
               /\ s.score.efficiency_penalty = 0
               /\ s.score.total_score = 11000

C15_Witness ==
    \E r \in RunIds :
        /\ Scored(r)
        /\ tasks[r].state.total_tests = 0 /\ tasks[r].state.tests_passed = 0
        /\ tasks[r].state.failures = <<>> /\ tasks[r].state.fixes = <<>>
        /\ tasks[r].state.cicd_status = "success"
        /\ tasks[r].state.duration_seconds = 100 /\ tasks[r].state.retry_count = 0

\* C16: with total_tests 10, tests_passed 5, two failures, one applied fix,
\* CI failure, 400 seconds and retry_count 25 the score step yields
\* tests_score 20, fix_quality 20, ci_bonus 0, base 40, speed_bonus 0,
\* penalty 12 and total 28.
C16_HalfFixedSlowRunScores28 ==
    \A r \in RunIds :
        LET s == tasks[r].state
        IN  (/\ Scored(r)
             /\ s.total_tests = 10 /\ s.tests_passed = 5
             /\ Len(s.failures) = 2 /\ Applied(s) = 1
             /\ s.cicd_status = "failure"
             /\ s.duration_seconds = 400 /\ s.retry_count = 25)
            => /\ TestsPart(s.score) = 2000
               /\ s.score.fix_quality_score = 2000
               /\ s.score.ci_success_bonus = 0
               /\ s.score.base_score = 4000
               /\ s.score.speed_bonus = 0
               /\ s.score.efficiency_penalty = 1200
               /\ s.score.total_score = 2800

C16_Witness ==
    \E r \in RunIds :
        /\ Scored(r)
        /\ tasks[r].state.total_tests = 10 /\ tasks[r].state.tests_passed = 5
        /\ Len(tasks[r].state.failures) = 2 /\ Applied(tasks[r].state) = 1
        /\ tasks[r].state.cicd_status = "failure"
        /\ tasks[r].state.duration_seconds = 400 /\ tasks[r].state.retry_count = 25

C19_ScoreStepIsTotal ==
    \A r \in RunIds :
        Executed(r, "score") > 0 =>
            /\ tasks[r].pc = "END"
            /\ DOMAIN tasks[r].state.score =
                   {"tests_passed_pct", "fixes_applied", "fix_quality_score",
                    "ci_success_bonus", "base_score", "speed_bonus",
                    "efficiency_penalty", "total_score"}
            /\ \A k \in DOMAIN tasks[r].state.score : tasks[r].state.score[k] \in Nat

C19_Witness ==
    \E r \in RunIds :
        /\ Executed(r, "score") > 0
        /\ tasks[r].state.total_tests = 0
        /\ tasks[r].state.tests_passed = 5
        /\ Len(tasks[r].state.failures) = 0
        /\ Len(tasks[r].state.fixes) = 2

\* the number of tabs a line starts with
TabsAtStart(line) ==
    CHOOSE n \in 0..Len(line) :
        /\ \A i \in 1..n : line[i] = "\t"
        /\ n = Len(line) \/ line[n + 1] # "\t"

\* the indentation fallback was applied to a line of the file
IndentationFixed(r) ==
    /\ RuleFixReturned(r)
    /\ tasks[r].failure.bug_type = "INDENTATION"
    /\ tasks[r].failure.line \in 1..Len(tasks[r].code_lines)

\* C20 as claimed: the failing line, which started with N tabs, now starts
\* with 4*N spaces in their place and holds no tab at all; every other line
\* is unchanged.
C20_IndentationFallbackLeavesNoTab ==
    \A r \in RunIds :
        IndentationFixed(r) =>
            LET old == tasks[r].code_lines[tasks[r].failure.line]
                new == tasks[r].fixed.lines[tasks[r].failure.line]
                n == TabsAtStart(old)
            IN  /\ Len(new) = Len(old) + 3 * n
                /\ \A i \in 1..(4 * n) : new[i] = " "
                /\ \A i \in 1..Len(new) : new[i] # "\t"
                /\ Len(tasks[r].fixed.lines) = Len(tasks[r].code_lines)
                /\ \A l \in 1..Len(tasks[r].code_lines) :
                       l # tasks[r].failure.line =>
                           tasks[r].fixed.lines[l] = tasks[r].code_lines[l]

\* C20 amended: the failing line, which started with N tabs, now starts with
\* 4*N spaces in their place, followed by the rest of the line as it was
\* (a tab after the first other character stays); every other line is
\* unchanged.
C20_IndentationFallbackExpandsLeadingTabs ==
    \A r \in RunIds :
        IndentationFixed(r) =>
            LET old == tasks[r].code_lines[tasks[r].failure.line]
                new == tasks[r].fixed.lines[tasks[r].failure.line]
                n == TabsAtStart(old)
            IN  /\ Len(new) = Len(old) + 3 * n
                /\ \A i \in 1..(4 * n) : new[i] = " "
                /\ \A i \in 1..(Len(old) - n) : new[4 * n + i] = old[n + i]
                /\ Len(tasks[r].fixed.lines) = Len(tasks[r].code_lines)
                /\ \A l \in 1..Len(tasks[r].code_lines) :
                       l # tasks[r].failure.line =>
                           tasks[r].fixed.lines[l] = tasks[r].code_lines[l]

C20_Witness ==
    \E r \in RunIds :
        /\ IndentationFixed(r)
        /\ tasks[r].failure.line = 2
        /\ tasks[r].code_lines = <<<<"\t", "x">>, <<"\t", "\t", "x">>>>
        /\ tasks[r].fixed.lines =
               <<<<"\t", "x">>, <<" ", " ", " ", " ", " ", " ", " ", " ", "x">>>>

ApplyFixReturned(r) == tasks[r].pc = "returned" /\ "outcome" \in DOMAIN tasks[r]

\* the text of the failure's file once _apply_fix has returned
ContentAfter(r) ==
    IF tasks[r].outcome.written = None THEN tasks[r].env.lines
    ELSE tasks[r].outcome.written

\* C21: with a well-formed key, when the LLM call fails (no answer, or an
\* answer without the markers) the FixRecord and what is written to the file
\* are those of the rule-based fallback alone, as without a key.
C21_FailedLLMCallFallsBack ==
    \A r \in RunIds :
        (/\ ApplyFixReturned(r)
         /\ WellFormedKey(tasks[r].openai_key)
         /\ tasks[r].env.llm \in {LLMUnreachable, LLMMalformed})
        => LET fallback == _apply_fix(tasks[r].failure, "", tasks[r].env)
           IN  /\ tasks[r].outcome.fix = fallback.fix
               /\ tasks[r].outcome.written = fallback.written

\* C28: when the failure's file is not in the clone, _apply_fix returns a
\* FixRecord for the failure with status failed, a "file not found"
\* description and an empty patch, writes no file and does not call the LLM.
C28_MissingFileIsSkipped ==
    \A r \in RunIds :
        (ApplyFixReturned(r) /\ tasks[r].env.file = "missing") =>
            /\ ~tasks[r].outcome.raised
            /\ tasks[r].outcome.fix.status = "failed"
            /\ tasks[r].outcome.fix.fix_description = "file not found - skipped"
            /\ tasks[r].outcome.fix.patch = <<>>
            /\ SameKey(tasks[r].outcome.fix, tasks[r].failure)
            /\ tasks[r].outcome.written = None
            /\ ~tasks[r].outcome.llm_called

C28_Witness ==
    \E r \in RunIds :
        /\ ApplyFixReturned(r)
        /\ tasks[r].env.file = "missing"
        /\ tasks[r].env.llm = LLMProposal
        /\ tasks[r].openai_key = "sk-key"
        /\ tasks[r].outcome.fix.status = "failed"

\* the rule-based fallback handled a failure whose bug type has no rule: the
\* file was read, and there was no key or no code in the LLM's answer
FallbackWithoutRule(r) ==
    /\ ApplyFixReturned(r)
    /\ tasks[r].env.file \in {"ok", "readonly"}
    /\ ~WellFormedKey(tasks[r].openai_key)
           \/ tasks[r].env.llm \in {LLMMalformed, LLMEmptyCode}
    /\ tasks[r].failure.bug_type \notin {"INDENTATION", "IMPORT"}

\* C29 as claimed: after the fallback handled a failure whose bug type has no
\* rule, the file's text is what it was, and the FixRecord has description
\* "apply automated fix" and status applied.
C29_NoRuleIsIdentityAndApplied ==
    \A r \in RunIds :
        FallbackWithoutRule(r) =>
            /\ ContentAfter(r) = tasks[r].env.lines
            /\ tasks[r].outcome.fix.fix_description = "apply automated fix"
            /\ tasks[r].outcome.fix.status = "applied"

\* C29 amended: the file's text is what it was; the FixRecord has description
\* "apply automated fix" and status applied when the file could be written
\* back, and status failed with an empty patch when it could not.
C29_NoRuleIsIdentity ==
    \A r \in RunIds :
        FallbackWithoutRule(r) =>
            /\ ContentAfter(r) = tasks[r].env.lines
            /\ tasks[r].env.file = "ok" =>
                   /\ tasks[r].outcome.written = tasks[r].env.lines
                   /\ tasks[r].outcome.fix.fix_description = "apply automated fix"
                   /\ tasks[r].outcome.fix.status = "applied"
            /\ tasks[r].env.file = "readonly" =>
                   /\ tasks[r].outcome.fix.status = "failed"
                   /\ tasks[r].outcome.fix.patch = <<>>

C29_Witness ==
    \E r \in RunIds :
        /\ FallbackWithoutRule(r)
        /\ tasks[r].env.file = "ok"
        /\ tasks[r].failure.line = 2
        /\ tasks[r].env.lines = RepoFile
        /\ tasks[r].outcome.written = RepoFile
        /\ tasks[r].outcome.fix.patch = Join(RepoFile)

IsPrefix(a, b) == Len(a) <= Len(b) /\ SubSeq(b, 1, Len(a)) = a

\* C22: every step of a run, the retry node included, returns a state whose
\* cicd_timeline has the timeline of the state it received as a prefix.
C22_TimelineIsAppendOnly ==
    [][\A r \in RunIds :
          (Started(r) /\ Started(r)') =>
              IsPrefix(tasks[r].state.cicd_timeline, tasks'[r].state.cicd_timeline)]_vars

C22_Witness ==
    \E r \in RunIds :
        /\ tasks[r].pc = "END"
        /\ Executed(r, "increment_retry") >= 1
        /\ Executed(r, "fix") >= 2
        /\ tasks[r].state.cicd_timeline[1] = Ev("clone_started", "running")
        /\ Len(tasks[r].state.cicd_timeline) >= 12

\* C23: a reset, in whatever state it is handled, leaves the published state
\* idle with run_id, data and error cleared, and results.json as it was.
C23_ResetClearsMemoryOnly ==
    [][(last_response' = "reset" /\ last_response # "reset") =>
            /\ pipeline_state'.status = "idle"
            /\ pipeline_state'.run_id = None
            /\ pipeline_state'.data = NoData
            /\ pipeline_state'.error = None
            /\ results_file' = results_file]_vars

C23_Witness ==
    /\ last_response = "reset"
    /\ pipeline_state = IdleState
    /\ results_file # NoFile
    /\ \E r \in RunIds : InFlight(r) /\ tasks[r].pc = "clone"

\* the runs that have written their record
Completed == {r \in RunIds : tasks[r].pc \in {"publish", "done"} /\ tasks[r].exc = None}

\* C24: GET /api/results returns the persisted record of the last completed
\* run, field for field, and answers not-found exactly when no run has
\* completed.
C24_ResultQueryReturnsPersistedRecord ==
    /\ Completed # {} => get_results = results_file
    /\ get_results = NotFound <=> Completed = {}

\* the edge the precedence list gives for the four fields
EdgeByPrecedence(status, cicd_status, retry_count, retry_limit) ==
    CASE status = "failed" -> "score"
      [] status # "failed" /\ cicd_status = "success" -> "score"
      [] status # "failed" /\ cicd_status # "success" /\ retry_count >= retry_limit -> "score"
      [] OTHER -> "increment_retry"

\* C30: the edge taken after cicd_monitor is determined by status, the CI
\* outcome, retry_count and retry_limit of the state the node returned: a failed
\* run goes to score; else a CI success goes to score; else an exhausted budget
\* (retry_count >= retry_limit) goes to score; else the run retries.  A pending
\* CI outcome is handled as a failure is.
C30_EdgeFollowsPrecedence ==
    [][\A r \in RunIds :
          (tasks[r].pc = "cicd_monitor" /\ tasks'[r].pc # "cicd_monitor") =>
              LET s == tasks'[r].state
              IN  tasks'[r].pc = EdgeByPrecedence(s.status, s.cicd_status,
                                                  s.retry_count, s.retry_limit)]_vars

C30_Witness ==
    \E r \in RunIds :
        /\ tasks[r].pc = "increment_retry"
        /\ tasks[r].state.cicd_status = "pending"
        /\ tasks[r].state.retry_count < tasks[r].state.retry_limit

\* the remote CI is asked, and no status request within the budget finds the
\* workflow completed: none is found, a request raises, or it never completes
CiDegraded(s, o) ==
    /\ s.github_token # "" /\ s.commit_sha # "" /\ o.url = "ok"
    /\ \/ o.run_id \in {None, "raise"}
       \/ ~\E i \in 1..60 :
              /\ get_workflow_status(o, i).status = "completed"
              /\ \A j \in 1..(i - 1) : get_workflow_status(o, j).status # "raise"

\* C25: cicd_monitor never ends the run: it makes at most 60 status requests;
\* when the workflow is missing, a request raises or no request finds it
\* completed, it returns a CI outcome of failure or pending and a timeline
\* longer by at least one event; it never changes status; and the run goes on
\* along the conditional edge, to score or to increment_retry.
C25_VerifyIsNeverFatal ==
    [][\A r \in RunIds :
          (tasks[r].pc = "cicd_monitor" /\ tasks'[r].pc # "cicd_monitor") =>
              LET s == tasks[r].state
                  v == tasks'[r].state
              IN  /\ tasks'[r].pc \in {"score", "increment_retry"}
                  /\ tasks'[r].exc = None
                  /\ v.status = s.status
                  /\ \A o \in CiOutcomes :
                        /\ status_polls(s, o) <= 60
                        /\ (CiDegraded(s, o) /\ v = cicd_agent(s, o)) =>
                               /\ v.cicd_status \in {"failure", "pending"}
                               /\ IsPrefix(s.cicd_timeline, v.cicd_timeline)
                               /\ Len(v.cicd_timeline) > Len(s.cicd_timeline)]_vars

\* the poll loop has run out of its budget and the run is on its way to score
C25_Witness ==
    \E r \in RunIds :
        LET s == tasks[r].state
        IN  /\ tasks[r].pc = "score"
            /\ s.status # "failed"
            /\ s.cicd_status = "failure"
            /\ s.cicd_timeline # <<>>
            /\ s.cicd_timeline[Len(s.cicd_timeline)].event = "cicd_timeout"
            /\ \E o \in CiOutcomes :
                  status_polls(s, o) = 60

\* some publish step of the run failed
PublishFailed(r) ==
    /\ Started(r)
    /\ \E i \in 1..Len(tasks[r].state.cicd_timeline) :
          tasks[r].state.cicd_timeline[i] = Ev("git_failed", "failure")

\* C26: a publish step that failed (its git_failed event is the last of the
\* timeline) hands to cicd_monitor a state with the error_message, an empty
\* commit_sha and a status that is not failed; and a run in which a publish step failed does not
\* end without the score step having executed.
C26_PublishFailureStillScores ==
    \A r \in RunIds :
        /\ (PublishFailed(r) /\ tasks[r].pc = "cicd_monitor") =>
               LET s == tasks[r].state
               IN  s.cicd_timeline[Len(s.cicd_timeline)] = Ev("git_failed", "failure") =>
                       /\ s.error_message = "git error"
                       /\ s.commit_sha = ""
                       /\ s.status # "failed"
        /\ (PublishFailed(r) /\ tasks[r].pc \in {"except", "done"}) =>
               Executed(r, "score") > 0

\* a tool of the call was not available: the test run raised (not found, timed
\* out), or the lint tool timed out or is missing
ToolUnavailable(o) == o.raised \/ o.lint.status # "ran"

\* the same call with that tool having run and reported nothing
RanAndFoundNothing(o) == [o EXCEPT !.raised = FALSE, !.lint = LintRan(<<>>)]

\* C27: when the test tool or the lint tool is unavailable, analyze returns a
\* state (it raises nothing) in which that tool has contributed no failure, and
\* which differs from the state it returns when the same tool ran and found
\* nothing.
C27_UnavailableToolIsObservable ==
    \A r \in RunIds :
        (AnalyzeReturned(r) /\ ToolUnavailable(tasks[r].tool)) =>
            LET o == tasks[r].tool
            IN  /\ tasks[r].state.failures =
                       IF o.raised THEN <<>> ELSE Dedupe(o.raw, {})
                /\ tasks[r].state # analyze_agent(ClonedState, RanAndFoundNothing(o))

\* C31: the retry node adds exactly 1 to retry_count, empties fixes, and leaves
\* every other field of the AgentState as it was (failures, the test
\* counters, the timeline, cicd_status, commit_sha, status among them).
C31_RetryChangesCountAndFixesOnly ==
    [][\A r \in RunIds :
          (tasks[r].pc = "increment_retry" /\ tasks'[r].pc # "increment_retry") =>
              LET s == tasks[r].state
                  v == tasks'[r].state
              IN  /\ v.retry_count = s.retry_count + 1
                  /\ v.fixes = <<>>
                  /\ DOMAIN v = DOMAIN s
                  /\ \A k \in DOMAIN s \ {"retry_count", "fixes"} : v[k] = s[k]]_vars

\* a retry has just emptied the FixRecords of a cycle that had failures, after
\* a CI outcome other than the initial one
C31_Witness ==
    \E r \in RunIds :
        /\ tasks[r].pc = "analyze"
        /\ tasks[r].trace # <<>>
        /\ tasks[r].trace[Len(tasks[r].trace)] = "increment_retry"
        /\ tasks[r].state.retry_count = 1
        /\ tasks[r].state.fixes = <<>>
        /\ tasks[r].state.failures # <<>>
        /\ tasks[r].state.cicd_status = "failure"
        /\ tasks[r].state.commit_sha # ""

\* the nodes that may execute right after a node, in graph order
Following(node) ==
    CASE node = "clone" -> {"analyze"}
      [] node = "analyze" -> {"fix"}
      [] node = "fix" -> {"git"}
      [] node = "git" -> {"cicd_monitor"}
      [] node = "cicd_monitor" -> {"increment_retry", "score"}
      [] node = "increment_retry" -> {"analyze"}
      [] OTHER -> {}

\* C32: the nodes of a run execute one after the other in graph order: clone
\* first and once; then analyze, fix, git, cicd_monitor in that order in every
\* cycle; a further cycle only after cicd_monitor and increment_retry; and when
\* the graph has got to score, the number of cycles executed is
\* retry_count + 1.
C32_NodesRunInGraphOrder ==
    \A r \in RunIds :
        LET trace == tasks[r].trace
        IN  /\ trace # <<>> => trace[1] = "clone"
            /\ Executed(r, "clone") <= 1
            /\ \A i \in 1..(Len(trace) - 1) : trace[i + 1] \in Following(trace[i])
            /\ (trace # <<>> /\ tasks[r].pc \in {"analyze", "fix", "git", "cicd_monitor",
                                                 "increment_retry", "score"}) =>
                   tasks[r].pc \in Following(trace[Len(trace)])
            /\ AtScore(r) =>
                   \A n \in {"analyze", "fix", "git", "cicd_monitor"} :
                       Executed(r, n) = tasks[r].state.retry_count + 1

\* a run of two cycles has got to score
C32_Witness ==
    \E r \in RunIds :
        /\ tasks[r].pc = "score"
        /\ tasks[r].state.retry_count = 1
        /\ tasks[r].trace = <<"clone", "analyze", "fix", "git", "cicd_monitor",
                               "increment_retry", "analyze", "fix", "git", "cicd_monitor">>

\* f.readlines() of the file whose lines were written
ReadBack(written) == SplitLines(Join(written), <<>>)

\* _apply_fix has written the file with the LLM's replacement spliced in
LLMSpliceWritten(r) ==
    /\ ApplyFixReturned(r)
    /\ WellFormedKey(tasks[r].openai_key)
    /\ tasks[r].env.file = "ok"
    /\ _parse_llm_response(_call_llm(tasks[r].env.llm)).fixed_code # <<>>

\* C33: when the LLM's replacement is spliced into a file of n lines for a
\* failure at line L, the lines of the file before line max(1, L - 10) and the
\* lines after line min(n, L + 10) are lines of the written file too, unchanged,
\* in their order, at its beginning and at its end.
C33_SpliceReplacesWindowOnly ==
    \A r \in RunIds :
        LLMSpliceWritten(r) =>
            LET original == tasks[r].env.lines
                n == Len(original)
                first == Max(1, tasks[r].failure.line - 10)
                last == Min(n, tasks[r].failure.line + 10)
                after == ReadBack(tasks[r].outcome.written)
                m == Len(after)
            IN  /\ m >= (first - 1) + (n - last)
                /\ \A i \in 1..(first - 1) : after[i] = original[i]
                /\ \A k \in 1..(n - last) : after[m - k + 1] = original[n - k + 1]

\* C34: in the final state run_pipeline returns, and in the record written from
\* it, the ScoreBreakdown's speed_bonus is 10 when duration_seconds is below
\* 300 and 0 otherwise (in hundredths: 1000 and 0).
C34_SpeedBonusFollowsElapsedTime ==
    \A r \in RunIds :
        (tasks[r].pc \in {"write", "publish", "done"} /\ Executed(r, "score") > 0) =>
            LET s == tasks[r].state
            IN  /\ s.score.speed_bonus =
                       IF s.duration_seconds < 300 THEN 1000 ELSE 0
                /\ (tasks[r].pc \in {"publish", "done"} /\ results_file # NoFile) =>
                       results_file.score.speed_bonus =
                           IF results_file.duration_seconds < 300 THEN 1000 ELSE 0

\* C35: once score has executed, whatever the status was before it, status is
\* success when total_score >= 50 and partial otherwise; and the state
\* graph.invoke has returned never has status running.
C35_StatusFollowsTotalScore ==
    \A r \in RunIds :
        /\ Executed(r, "score") > 0 =>
               tasks[r].state.status =
                   IF tasks[r].state.score.total_score >= 5000 THEN "success" ELSE "partial"
        /\ Returned(r) => tasks[r].state.status # "running"

\* score has executed on a state whose status was failed
C35_Witness ==
    \E r \in RunIds :
        /\ tasks[r].pc = "END"
        /\ CloneFailed(r)
        /\ tasks[r].state.error_message = "git clone failed"
        /\ tasks[r].state.status \in {"success", "partial"}

\* no analysis of the run so far has found a failure
NoFailureFound(r) ==
    \A i \in 1..Len(tasks[r].state.cicd_timeline) :
        tasks[r].state.cicd_timeline[i] # Ev("analysis_complete", "failure")

\* cicd_monitor, unable to poll (no token, or no commit), reports success only
\* for a state with an applied fix and a failure
SimulatedSuccessNeedsAppliedFix ==
    \A r \in RunIds :
        (tasks[r].pc = "cicd_monitor"
            /\ (tasks[r].state.github_token = "" \/ tasks[r].state.commit_sha = "")) =>
            \A o \in CiOutcomes :
                cicd_agent(tasks[r].state, o).cicd_status = "success" =>
                    /\ Applied(tasks[r].state) > 0
                    /\ tasks[r].state.failures # <<>>

\* C36 as stated: without a token, cicd_monitor reports success only for a
\* cycle with an applied fix and a failure; and a run in which no analysis
\* finds a failure never has the CI outcome success and gets to score only
\* with retry_count >= retry_limit.
C36_CleanRunExhaustsBudget ==
    /\ SimulatedSuccessNeedsAppliedFix
    /\ \A r \in RunIds :
          (Started(r) /\ tasks[r].state.github_token = "" /\ NoFailureFound(r)) =>
              /\ NeverSuccess(r)
              /\ AtScore(r) => tasks[r].state.retry_count >= tasks[r].state.retry_limit

\* C36, amended: the same for a run whose clone succeeded (a run whose clone
\* failed goes to score after its first cycle, whatever retry_limit is).
C36_CleanClonedRunExhaustsBudget ==
    /\ SimulatedSuccessNeedsAppliedFix
    /\ \A r \in RunIds :
          (Started(r) /\ tasks[r].state.github_token = "" /\ NoFailureFound(r)) =>
              /\ NeverSuccess(r)
              /\ (AtScore(r) /\ CloneSucceeded(r)) =>
                     tasks[r].state.retry_count >= tasks[r].state.retry_limit

\* a cloned run without a token has found no failure in two cycles and is at score
C36_Witness ==
    \E r \in RunIds :
        /\ tasks[r].pc = "score"
        /\ CloneSucceeded(r)
        /\ tasks[r].state.github_token = ""
        /\ NoFailureFound(r)
        /\ tasks[r].ci_log = <<"failure", "failure">>
        /\ tasks[r].state.retry_count = 1
        /\ tasks[r].state.retry_limit = 1

\* C37: whenever GET /api/status reports success or partial for a run, that
\* run has written its record before (so a results.json exists); and a task
\* whose write_results failed publishes the status failed.
C37_RecordWrittenBeforeTerminalStatus ==
    /\ [](get_status.status \in {"success", "partial"} =>
            \E r \in Completed :
                /\ get_status.run_id = r
                /\ results_file # NoFile)
    /\ [][\A r \in RunIds :
            (tasks[r].pc = "except" /\ tasks'[r].pc = "done") =>
                pipeline_state'.status = "failed"]_vars

\* the status query reports the success of the second run, whose record is on disk
C37_Witness ==
    /\ get_status.status = "success"
    /\ get_status.run_id = 2
    /\ tasks[2].pc = "done"
    /\ results_file # NoFile
    /\ results_file.run_id = 2
    /\ tasks[1].exc = "OSError results.json"

\* the fields of the AgentState that hold the credentials of the request
CredentialFields == {"github_token", "openai_key"}

\* C38: neither results.json nor a response of GET /api/status, /api/results
\* or /api/timeline has a field holding a credential of the request.
C38_NoCredentialLeavesTheServer ==
    /\ results_file # NoFile => DOMAIN results_file \cap CredentialFields = {}
    /\ DOMAIN get_status \cap CredentialFields = {}
    /\ DOMAIN get_timeline \cap CredentialFields = {}
    /\ DOMAIN get_results \cap CredentialFields = {}

====
